---- MODULE Spec2Model ----
(***************************************************************************)
(* A model of the two tutorial scripts of the repository:                  *)
(*   Code new/advanced/tutorial.py  (the conversational sales agent)       *)
(*   Code new/beginner/tutorial.py  (the linear ingest-and-search script)  *)
(* One behaviour of the model is one run of one of the two scripts.  The   *)
(* external services (graph store, LLM, terminal) are the environment:     *)
(* what they return, and whether a call raises, is chosen with \E.         *)
(* A Python string the code compares or transforms is a sequence of        *)
(* one-character strings; other texts are opaque tokens.                   *)
(***************************************************************************)
EXTENDS Integers, Sequences, FiniteSets

\* ------------------------------------------------------------------ bounds
\* Non-exit user inputs the chat loop accepts before only 'exit' is offered.
MaxTurns == 2
\* Tool-call rounds the LLM may ask for within one run.
MaxRounds == 1
\* Products in the product data file.
MaxProducts == 1

\* ------------------------------------------------------- program constants
\* The beginner script's list of sample episodes has four entries.
NumEpisodes == 4
\* num_results of the chatbot's search, and of the tool's search.
ChatbotNumResults == 5
ToolNumResults == 10
\* node_search_config.limit of the beginner script.
NodeSearchLimit == 5

None == "None"

\* ----------------------------------------------------------------- strings
Yes == <<"y", "e", "s">>
Exit == <<"e", "x", "i", "t">>

\* str.lower() on the characters the model's inputs are made of.
LowerChar(c) ==
    CASE c = "Y" -> "y"
      [] c = "E" -> "e"
      [] c = "S" -> "s"
      [] c = "X" -> "x"
      [] c = "I" -> "i"
      [] c = "T" -> "t"
      [] c = "H" -> "h"
      [] OTHER -> c

Lower(s) == [i \in DOMAIN s |-> LowerChar(s[i])]

\* Answers typed at the setup prompt.
Answers ==
    { Yes, <<"Y", "e", "S">>, <<"n", "o">> }

\* Lines typed at the 'You: ' prompt.
Inputs ==
    { Exit, <<"E", "x", "I", "T">>, <<>>, <<"H", "i">> }

\* What a node search (_search) for `query` can return in .nodes: uuids,
\* best first.
NodeResults(query) == { <<>>, << "uuid-" \o query, "uuid-other" >> }

\* What an edge search (search) can return: the facts of the edges, in order,
\* each with the uuid of its source node.
Edge(f, s) == [fact |-> f, source_node_uuid |-> s]
EdgeResults ==
    { <<>>, <<Edge("f2", "n2"), Edge("f1", "n1")>> }

VARIABLES
    script,          \* which script this run executes
    pc,              \* position of main()
    outcome,         \* "running" | "returned" | "raised": how main() ended
    exc,             \* the exception in flight, or None
    run_setup,       \* advanced: the answer to the setup prompt
    json_file,       \* advanced: what setup_database() found at json_file_path
    products_left,   \* advanced: products of the file not yet ingested
    node_list,       \* advanced: what the last node lookup's _search did
    setup_user_node_uuid, \* advanced: setup_database()'s user_node_uuid
    user_uuid,       \* advanced: main()'s user_uuid
    manybirds_uuid,  \* advanced: main()'s manybirds_uuid
    user_state,      \* advanced: the conversation state's fixed entries
    user_input,      \* advanced: the line last read at 'You: '
    inputs_read,     \* advanced: lines read at 'You: ' so far
    graph_runs,      \* advanced: executions of the agent graph started
    messages,        \* advanced: the checkpointed message history
    facts_string,    \* advanced: chatbot's facts_string while chatbot runs
    edge_results,    \* advanced: chatbot's edge_results, None when not bound
    system_prompt,   \* advanced: the facts part of the system prompt of the
                     \*           chatbot call that just ended
    rounds,          \* advanced: tool rounds the LLM has asked for in this run
    scheduled,       \* advanced: the add_episode tasks created in this turn
    tasks,           \* advanced: number of background tasks created and not
                     \*           yet ended
    bg_failed,       \* advanced: some background task ended in an exception
    calls,           \* calls main() and the graph nodes made on the graph
                     \* connection, in order
    out,             \* what was logged as an error or printed, in order
    graphiti,        \* the Graphiti instance (the advanced script's client)
    ep_index,        \* beginner: index of the next episode to add
    results          \* beginner: the initial search's results

\* Where main() is and how it ended.
ctlVars == << pc, outcome, exc >>

\* The variables of setup_database() and of main()'s node lookups.
setupVars ==
    << json_file, products_left, node_list, setup_user_node_uuid, user_uuid,
       manybirds_uuid >>

\* The variables of the chat loop.
loopVars == << user_state, user_input, inputs_read, graph_runs >>

\* The variables of the agent graph.
graphVars == << messages, facts_string, edge_results, system_prompt, rounds,
               scheduled >>

\* The background tasks.
bgVars == << tasks, bg_failed >>

advVars == << run_setup, setupVars, loopVars, graphVars, bgVars >>

begVars == << ep_index, results >>

vars == << script, ctlVars, advVars, calls, out, graphiti, begVars >>

Call(op, arg) == [op |-> op, arg |-> arg]

\* Before main() builds user_state, and before any node lookup.
NoUserState ==
    [user_name |-> None, user_node_uuid |-> None, manybirds_node_uuid |-> None]
NoNodeList == [kind |-> "unset", nodes |-> <<>>]

Init ==
    /\ script \in {"advanced", "beginner"}
    /\ pc = IF script = "advanced" THEN "ask_setup" ELSE "b_create"
    /\ outcome = "running"
    /\ exc = None
    /\ run_setup = None
    /\ json_file = None
    /\ products_left = 0
    /\ node_list = NoNodeList
    /\ setup_user_node_uuid = None
    /\ user_uuid = None
    /\ manybirds_uuid = None
    /\ user_state = NoUserState
    /\ user_input = None
    /\ inputs_read = 0
    /\ graph_runs = 0
    /\ messages = <<>>
    /\ facts_string = None
    /\ edge_results = None
    /\ system_prompt = None
    /\ rounds = 0
    /\ scheduled = <<>>
    /\ tasks = 0
    /\ bg_failed = FALSE
    /\ calls = <<>>
    /\ out = <<>>
    /\ graphiti = IF script = "advanced" THEN "client" ELSE None
    /\ ep_index = 0
    /\ results = <<>>

\* -------------------------------------------------------- advanced: main()

\* An exception that no handler of main() catches leaves main() at once.
EscapeMain(e) ==
    /\ pc' = "done"
    /\ outcome' = "raised"
    /\ exc' = e

\* main() goes on at position p.
Goto(p) ==
    /\ pc' = p
    /\ UNCHANGED << outcome, exc >>

\* main() returns.
ReturnMain ==
    /\ pc' = "done"
    /\ outcome' = "returned"
    /\ exc' = None

\* Mutant: the comparison inverted.
WantsSetup_Inverted(answer) == Lower(answer) # Yes

\* run_setup.lower() == 'yes'
WantsSetup(answer) == Lower(answer) = Yes

MainAskSetup ==
    /\ script = "advanced"
    /\ pc = "ask_setup"
    /\ \E answer \in Answers :
        /\ run_setup' = answer
        /\ Goto(IF WantsSetup(answer) THEN "setup_clear" ELSE "lookup_user")
    /\ UNCHANGED << script, setupVars, loopVars, graphVars, bgVars, calls, out,
                    graphiti, begVars >>

\* ---------------------------------------------- advanced: setup_database()

\* await clear_data(client.driver)
SetupClear ==
    /\ script = "advanced"
    /\ pc = "setup_clear"
    /\ calls' = Append(calls, Call("clear_data", None))
    /\ \E ok \in BOOLEAN :
        IF ok THEN Goto("setup_indices") ELSE EscapeMain("Exception")
    /\ UNCHANGED << script, run_setup, setupVars, loopVars, graphVars, bgVars,
                    out, graphiti, begVars >>

\* await client.build_indices_and_constraints()
SetupIndices ==
    /\ script = "advanced"
    /\ pc = "setup_indices"
    /\ calls' = Append(calls, Call("build_indices_and_constraints", None))
    /\ \E ok \in BOOLEAN :
        IF ok THEN Goto("setup_file") ELSE EscapeMain("Exception")
    /\ UNCHANGED << script, run_setup, setupVars, loopVars, graphVars, bgVars,
                    out, graphiti, begVars >>

\* The product data file: absent (an error is logged and (None, None) is
\* returned), unreadable (open or json.load raises), or read.
SetupFile ==
    /\ script = "advanced"
    /\ pc = "setup_file"
    /\ \E file \in {"missing", "unreadable", "read"} :
        /\ json_file' = file
        /\ CASE file = "missing" ->
                /\ out' = Append(out, "error: Product data not found")
                /\ user_uuid' = None
                /\ manybirds_uuid' = None
                /\ Goto("setup_returned")
                /\ UNCHANGED products_left
             [] file = "unreadable" ->
                /\ EscapeMain("Exception")
                /\ UNCHANGED << out, user_uuid, manybirds_uuid, products_left >>
             [] file = "read" ->
                /\ \E n \in 0..MaxProducts : products_left' = n
                /\ Goto("setup_ingest")
                /\ UNCHANGED << out, user_uuid, manybirds_uuid >>
    /\ UNCHANGED << script, run_setup, node_list, setup_user_node_uuid,
                    loopVars, graphVars, bgVars, calls, graphiti, begVars >>

\* for i, product in enumerate(products): await client.add_episode(...)
SetupIngest ==
    /\ script = "advanced"
    /\ pc = "setup_ingest"
    /\ IF products_left > 0
       THEN /\ calls' = Append(calls, Call("add_episode", "product"))
            /\ \E ok \in BOOLEAN :
                IF ok
                THEN /\ products_left' = products_left - 1
                     /\ Goto("setup_ingest")
                ELSE /\ EscapeMain("Exception")
                     /\ UNCHANGED products_left
       ELSE /\ Goto("setup_user")
            /\ UNCHANGED << calls, products_left >>
    /\ UNCHANGED << script, run_setup, json_file, node_list,
                    setup_user_node_uuid, user_uuid, manybirds_uuid, loopVars,
                    graphVars, bgVars, out, graphiti, begVars >>

\* The 'User Creation' episode.
SetupUser ==
    /\ script = "advanced"
    /\ pc = "setup_user"
    /\ calls' = Append(calls, Call("add_episode", "User Creation"))
    /\ \E ok \in BOOLEAN :
        IF ok THEN Goto("setup_search_user") ELSE EscapeMain("Exception")
    /\ UNCHANGED << script, run_setup, setupVars, loopVars, graphVars, bgVars,
                    out, graphiti, begVars >>

\* What a call of client._search(query, ...) can do: raise, return an object
\* without nodes, or return its nodes.
SearchOutcomes(query) ==
    { [kind |-> "raise", nodes |-> <<>>], [kind |-> "none", nodes |-> <<>>] }
        \cup { [kind |-> "ok", nodes |-> ns] : ns \in NodeResults(query) }

\* The exception `(await client._search(...)).nodes[0].uuid` raises, or None.
NodeLookupExc(r) ==
    IF r.kind = "raise" THEN "Exception"
    ELSE IF r.kind = "none" THEN "AttributeError"
    ELSE IF r.nodes = <<>> THEN "IndexError"
    ELSE None

\* nodes[0].uuid (Python indexes from 0, a TLA+ sequence from 1).
FirstUuid(r) == r.nodes[1]

\* user_node_uuid = (await client._search(user_name, ...)).nodes[0].uuid
\* No handler surrounds the lookup in setup_database().
SetupSearchUser ==
    /\ script = "advanced"
    /\ pc = "setup_search_user"
    /\ calls' = Append(calls, Call("_search", "jess"))
    /\ \E r \in SearchOutcomes("jess") :
        /\ node_list' = r
        /\ IF NodeLookupExc(r) = None
           THEN /\ setup_user_node_uuid' = FirstUuid(r)
                /\ Goto("setup_search_brand")
           ELSE /\ EscapeMain(NodeLookupExc(r))
                /\ UNCHANGED setup_user_node_uuid
    /\ UNCHANGED << script, run_setup, json_file, products_left, user_uuid,
                    manybirds_uuid, loopVars, graphVars, bgVars, out, graphiti,
                    begVars >>

\* manybirds_node_uuid = ...nodes[0].uuid; return user_node_uuid, manybirds_node_uuid
SetupSearchBrand ==
    /\ script = "advanced"
    /\ pc = "setup_search_brand"
    /\ calls' = Append(calls, Call("_search", "ManyBirds"))
    /\ \E r \in SearchOutcomes("ManyBirds") :
        /\ node_list' = r
        /\ IF NodeLookupExc(r) = None
           THEN /\ user_uuid' = setup_user_node_uuid
                /\ manybirds_uuid' = FirstUuid(r)
                /\ Goto("setup_returned")
           ELSE /\ EscapeMain(NodeLookupExc(r))
                /\ UNCHANGED << user_uuid, manybirds_uuid >>
    /\ UNCHANGED << script, run_setup, json_file, products_left,
                    setup_user_node_uuid, loopVars, graphVars, bgVars, out,
                    graphiti, begVars >>

\* Mutant: the result of setup_database() is not checked.
SetupFailed_Unchecked == FALSE

\* if user_uuid is None: return
SetupFailed == user_uuid = None

MainAfterSetup ==
    /\ script = "advanced"
    /\ pc = "setup_returned"
    /\ IF SetupFailed THEN ReturnMain ELSE Goto("ready")
    /\ UNCHANGED << script, run_setup, setupVars, loopVars, graphVars, bgVars,
                    calls, out, graphiti, begVars >>

\* ------------------------------------- advanced: main(), existing-data path

\* except (IndexError, AttributeError)
LookupCaught(e) == e \in {"IndexError", "AttributeError"}

\* What main() does with exception e raised inside its try block.
LookupFailed(e) ==
    IF LookupCaught(e)
    THEN /\ out' = Append(out, "error: Could not find existing user/brand nodes")
         /\ ReturnMain
    ELSE /\ EscapeMain(e)
         /\ UNCHANGED out

LookupUser ==
    /\ script = "advanced"
    /\ pc = "lookup_user"
    /\ calls' = Append(calls, Call("_search", "jess"))
    /\ \E r \in SearchOutcomes("jess") :
        /\ node_list' = r
        /\ IF NodeLookupExc(r) = None
           THEN /\ user_uuid' = FirstUuid(r)
                /\ Goto("lookup_brand")
                /\ UNCHANGED out
           ELSE /\ LookupFailed(NodeLookupExc(r))
                /\ UNCHANGED user_uuid
    /\ UNCHANGED << script, run_setup, json_file, products_left,
                    setup_user_node_uuid, manybirds_uuid, loopVars, graphVars,
                    bgVars, graphiti, begVars >>

LookupBrand ==
    /\ script = "advanced"
    /\ pc = "lookup_brand"
    /\ calls' = Append(calls, Call("_search", "ManyBirds"))
    /\ \E r \in SearchOutcomes("ManyBirds") :
        /\ node_list' = r
        /\ IF NodeLookupExc(r) = None
           THEN /\ manybirds_uuid' = FirstUuid(r)
                /\ Goto("ready")
                /\ UNCHANGED out
           ELSE /\ LookupFailed(NodeLookupExc(r))
                /\ UNCHANGED manybirds_uuid
    /\ UNCHANGED << script, run_setup, json_file, products_left,
                    setup_user_node_uuid, user_uuid, loopVars, graphVars,
                    bgVars, graphiti, begVars >>

\* user_state = {...}; the three banner lines.
MainReady ==
    /\ script = "advanced"
    /\ pc = "ready"
    /\ user_state' = [ user_name |-> "jess",
                       user_node_uuid |-> user_uuid,
                       manybirds_node_uuid |-> manybirds_uuid ]
    /\ out' = Append(out, "ShoeBot is ready")
    /\ Goto("input")
    /\ UNCHANGED << script, run_setup, setupVars, user_input, inputs_read,
                    graph_runs, graphVars, bgVars, calls, graphiti, begVars >>

\* -------------------------------------------------- advanced: agent graph

START == "__start__"
END == "__end__"

\* Message constructors: what add_messages keeps of a message.
UserMsg(text) == [role |-> "user", content |-> text, tool_calls |-> <<>>]
AiMsg(text, tool_calls) == [role |-> "ai", content |-> text, tool_calls |-> tool_calls]
ToolMsg(text) == [role |-> "tool", content |-> text, tool_calls |-> <<>>]

Last(seq) == seq[Len(seq)]

\* An exception raised while graph.astream() runs is raised inside main()'s
\* try block.
RaiseInTurn(e) ==
    /\ pc' = "turn_exc"
    /\ exc' = e
    /\ UNCHANGED outcome

\* ', '.join-like: the texts with sep between them.
RECURSIVE Join(_, _)
Join(texts, sep) ==
    IF texts = <<>> THEN <<>>
    ELSE IF Len(texts) = 1 THEN << texts[1] >>
    ELSE << texts[1], sep >> \o Join(Tail(texts), sep)

\* '- ' + '\\n- '.join([edge.fact for edge in entities])
edges_to_facts_string(entities) ==
    << "- " >> \o Join([i \in DOMAIN entities |-> entities[i].fact], "\\n- ")

\* Python's truth value of an optional string (a sequence of text pieces).
Truthy(text) == text # None /\ \E i \in DOMAIN text : text[i] # ""

NoFacts == << "No facts about the user and their conversation" >>

\* What client.search(..., num_results=n) can do: raise, or return edges.
EdgeOutcomes(n) ==
    { [kind |-> "raise", edges |-> <<>>] }
        \cup { [kind |-> "ok", edges |-> es] : es \in { r \in EdgeResults : Len(r) <= n } }

\* What llm.ainvoke can do: raise, answer, or (while the run's round bound
\* allows) ask for a tool call.
LlmOutcomes ==
    { [kind |-> "raise", msg |-> AiMsg("", <<>>)],
      [kind |-> "ok", msg |-> AiMsg("reply", <<>>)] }
        \cup { [kind |-> "ok", msg |-> AiMsg("", << "query" >>)] : r \in { x \in {rounds} : x < MaxRounds } }

\* Mutant: the test of should_continue inverted.
should_continue_Inverted(msgs) ==
    IF Last(msgs).tool_calls # <<>> THEN "end" ELSE "continue"

\* should_continue(state, config)
should_continue(msgs) ==
    IF Last(msgs).tool_calls = <<>> THEN "end" ELSE "continue"

\* graph_builder: add_edge(START, 'agent'), add_edge('tools', 'agent'),
\* add_conditional_edges('agent', should_continue, {...}).
Edges == { << START, "agent" >>, << "tools", "agent" >> }
ConditionalMap == [continue |-> "tools", end |-> END]

\* The node that runs after `node`, given the messages it left.
NextNode(node, msgs) ==
    IF node = "agent"
    THEN ConditionalMap[should_continue(msgs)]
    ELSE CHOOSE n \in {"agent", "tools", END} : << node, n >> \in Edges

\* main()'s position while the graph is at `node`.
PcOf(node) == IF node = END THEN "turn_end" ELSE node

\* Mutant: the comparison without lower().
IsExit_CaseSensitive(line) == line = Exit

\* user_input.lower() == 'exit'
IsExit(line) == Lower(line) = Exit

\* user_input = input("You: "); break on exit; else start the graph.
MainInput ==
    /\ script = "advanced"
    /\ pc = "input"
    /\ \E line \in Inputs :
        /\ ~IsExit(line) => inputs_read < MaxTurns
        /\ user_input' = line
        /\ inputs_read' = inputs_read + 1
        /\ IF IsExit(line)
           THEN /\ Goto("close")
                /\ UNCHANGED << graph_runs, messages, scheduled, out >>
           ELSE /\ messages' = Append(messages, UserMsg(line))
                /\ graph_runs' = graph_runs + 1
                /\ scheduled' = <<>>
                /\ out' = Append(out, "Assistant: ")
                /\ Goto(PcOf(NextNode(START, messages')))
    /\ UNCHANGED << script, run_setup, setupVars, user_state, facts_string,
                    edge_results, system_prompt, rounds, bgVars, calls,
                    graphiti, begVars >>

\* chatbot(), lines 199-214: the search for context.
ChatbotSearch ==
    /\ script = "advanced"
    /\ pc = "agent"
    /\ IF Len(messages) > 0
       THEN /\ calls' = Append(calls, Call("search", user_state.user_node_uuid))
            /\ \E r \in EdgeOutcomes(ChatbotNumResults) :
                IF r.kind = "raise"
                THEN /\ RaiseInTurn("Exception")
                     /\ edge_results' = None
                     /\ facts_string' = None
                ELSE /\ edge_results' = r.edges
                     /\ facts_string' = edges_to_facts_string(r.edges)
                     /\ Goto("agent_llm")
       ELSE /\ edge_results' = None
            /\ facts_string' = None
            /\ Goto("agent_llm")
            /\ UNCHANGED calls
    /\ UNCHANGED << script, run_setup, setupVars, loopVars, messages,
                    system_prompt, rounds, scheduled, bgVars, out, graphiti,
                    begVars >>

\* The episode_body of the background add_episode.
EpisodeBody(user_name, last_message, response) ==
    << user_name, last_message.content, "SalesBot", response.content >>

\* asyncio.create_task(client.add_episode(...)): a task nobody holds.
NewTask(response) ==
    [ name |-> "Chatbot Response",
      body |-> EpisodeBody(user_state.user_name, Last(messages), response) ]

\* {facts_string or 'No facts about the user and their conversation'}
SystemPromptFacts(facts) == IF Truthy(facts) THEN facts ELSE NoFacts

\* Mutant: chatbot awaits client.add_episode(...) instead of creating a task:
\* the write has ended when chatbot returns, and its exception is chatbot's.
ChatbotRespond_Awaited ==
    /\ script = "advanced"
    /\ pc = "agent_llm"
    /\ system_prompt' = SystemPromptFacts(facts_string)
    /\ facts_string' = None
    /\ \E r \in LlmOutcomes, failed \in BOOLEAN :
        IF r.kind = "raise" \/ failed
        THEN /\ RaiseInTurn("Exception")
             /\ UNCHANGED << messages, scheduled >>
        ELSE /\ scheduled' = Append(scheduled, NewTask(r.msg))
             /\ messages' = Append(messages, r.msg)
             /\ Goto("route")
    /\ UNCHANGED << script, run_setup, setupVars, loopVars, edge_results,
                    rounds, bgVars, calls, out, graphiti, begVars >>

\* chatbot(), lines 216-252: the prompt, the LLM call, the background task
\* and the return.  The task is created and left to the event loop.
ChatbotRespond ==
    /\ script = "advanced"
    /\ pc = "agent_llm"
    /\ system_prompt' = SystemPromptFacts(facts_string)
    /\ facts_string' = None
    /\ \E r \in LlmOutcomes :
        IF r.kind = "raise"
        THEN /\ RaiseInTurn("Exception")
             /\ UNCHANGED << messages, tasks, scheduled >>
        ELSE /\ tasks' = tasks + 1
             /\ scheduled' = Append(scheduled, NewTask(r.msg))
             /\ messages' = Append(messages, r.msg)
             /\ Goto("route")
    /\ UNCHANGED << script, run_setup, setupVars, loopVars, edge_results,
                    rounds, bg_failed, calls, out, graphiti, begVars >>

\* The conditional edge out of 'agent'.
AgentRoute ==
    /\ script = "advanced"
    /\ pc = "route"
    /\ Goto(PcOf(NextNode("agent", messages)))
    /\ system_prompt' = None
    /\ edge_results' = None
    /\ UNCHANGED << script, run_setup, setupVars, loopVars, messages,
                    facts_string, rounds, scheduled, bgVars, calls, out,
                    graphiti, begVars >>

\* The 'tools' node: get_shoe_data(query, state) for the tool call asked for.
ToolsNode ==
    /\ script = "advanced"
    /\ pc = "tools"
    /\ calls' = Append(calls, Call("search", user_state.manybirds_node_uuid))
    /\ \E r \in EdgeOutcomes(ToolNumResults) :
        IF r.kind = "raise"
        THEN /\ RaiseInTurn("Exception")
             /\ UNCHANGED << messages, rounds >>
        ELSE /\ messages' =
                  Append(messages, ToolMsg(edges_to_facts_string(r.edges)))
             /\ rounds' = rounds + 1
             /\ Goto(PcOf(NextNode("tools", messages')))
    /\ UNCHANGED << script, run_setup, setupVars, loopVars, facts_string,
                    edge_results, system_prompt, scheduled, bgVars, out,
                    graphiti, begVars >>

\* The graph reached END: print() and back to the prompt.
TurnEnd ==
    /\ script = "advanced"
    /\ pc = "turn_end"
    /\ out' = Append(out, "newline")
    /\ Goto("input")
    /\ UNCHANGED << script, run_setup, setupVars, loopVars, graphVars, bgVars,
                    calls, graphiti, begVars >>

\* Mutant: the handler prints the error and leaves the loop.
MainExcept_Break ==
    /\ script = "advanced"
    /\ pc = "turn_exc"
    /\ out' = Append(out, "An error occurred")
    /\ pc' = "close"
    /\ exc' = None
    /\ system_prompt' = None
    /\ edge_results' = None
    /\ UNCHANGED << script, outcome, run_setup, setupVars, loopVars, messages,
                    facts_string, rounds, scheduled, bgVars, calls, graphiti,
                    begVars >>

\* except Exception as e: print(f'An error occurred: {e}')
MainExcept ==
    /\ script = "advanced"
    /\ pc = "turn_exc"
    /\ out' = Append(out, "An error occurred")
    /\ pc' = "input"
    /\ exc' = None
    /\ system_prompt' = None
    /\ edge_results' = None
    /\ UNCHANGED << script, outcome, run_setup, setupVars, loopVars, messages,
                    facts_string, rounds, scheduled, bgVars, calls, graphiti,
                    begVars >>

\* await client.close(); print('--- Conversation ended ---')
MainClose ==
    /\ script = "advanced"
    /\ pc = "close"
    /\ calls' = Append(calls, Call("close", None))
    /\ \E ok \in BOOLEAN :
        IF ok
        THEN /\ out' = Append(out, "Conversation ended")
             /\ ReturnMain
        ELSE /\ EscapeMain("Exception")
             /\ UNCHANGED out
    /\ UNCHANGED << script, run_setup, setupVars, loopVars, graphVars, bgVars,
                    graphiti, begVars >>

\* The positions at which main() is suspended in an await, so that the
\* event loop can run a background task.  input() blocks the loop.
AwaitPoints == {"agent", "agent_llm", "route", "tools", "turn_end", "close"}

\* A background add_episode task runs to its end: it succeeds or it fails.
\* Nothing awaits the task, holds it or reads its result.
BackgroundTask ==
    /\ script = "advanced"
    /\ pc \in AwaitPoints
    /\ tasks > 0
    /\ tasks' = tasks - 1
    /\ \E failed \in BOOLEAN :
        bg_failed' = (bg_failed \/ failed)
    /\ UNCHANGED << script, ctlVars, run_setup, setupVars, loopVars, graphVars,
                    calls, out, graphiti, begVars >>

\* asyncio.run(main()): when main() has ended, the loop cancels the tasks
\* that have not ended and closes.
LoopShutdown ==
    /\ script = "advanced"
    /\ pc = "done"
    /\ pc' = "exited"
    /\ tasks' = 0
    /\ UNCHANGED << script, outcome, exc, run_setup, setupVars, loopVars,
                    graphVars, bg_failed, calls, out, graphiti, begVars >>

\* -------------------------------------------------------- beginner: main()

\* Mutant: the try block has no finally, the exception leaves main().
BeginnerRaise_NoFinally(e) == EscapeMain(e)

\* An exception raised inside the try block runs the finally block next.
BeginnerRaise(e) ==
    /\ pc' = "b_finally"
    /\ exc' = e
    /\ UNCHANGED outcome

\* graphiti = Graphiti(neo4j_uri, neo4j_user, neo4j_password), before try.
BeginnerCreate ==
    /\ script = "beginner"
    /\ pc = "b_create"
    /\ \E ok \in BOOLEAN :
        IF ok
        THEN /\ graphiti' = "graphiti"
             /\ Goto("b_add")
        ELSE /\ EscapeMain("Exception")
             /\ UNCHANGED graphiti
    /\ UNCHANGED << script, advVars, calls, out, begVars >>

\* for i, episode in enumerate(episodes): await graphiti.add_episode(...)
BeginnerAddEpisode ==
    /\ script = "beginner"
    /\ pc = "b_add"
    /\ IF ep_index < NumEpisodes
       THEN /\ calls' = Append(calls, Call("add_episode", ep_index))
            /\ \E ok \in BOOLEAN :
                IF ok
                THEN /\ ep_index' = ep_index + 1
                     /\ out' = Append(out, "Added episode")
                     /\ Goto("b_add")
                ELSE /\ BeginnerRaise("Exception")
                     /\ UNCHANGED << ep_index, out >>
       ELSE /\ Goto("b_search")
            /\ UNCHANGED << calls, ep_index, out >>
    /\ UNCHANGED << script, advVars, graphiti, results >>

\* if results and len(results) > 0
HasResults(rs) == rs # <<>> /\ Len(rs) > 0

\* results = await graphiti.search('Who was the California Attorney General?')
BeginnerSearch ==
    /\ script = "beginner"
    /\ pc = "b_search"
    /\ calls' = Append(calls, Call("search", None))
    /\ \E ok \in BOOLEAN, rs \in EdgeResults :
        IF ok
        THEN /\ results' = rs
             /\ out' = Append(out, IF HasResults(rs) THEN "Search Results"
                                   ELSE "No results found")
             /\ Goto(IF HasResults(rs) THEN "b_center" ELSE "b_node_search")
        ELSE /\ BeginnerRaise("Exception")
             /\ UNCHANGED << results, out >>
    /\ UNCHANGED << script, advVars, graphiti, ep_index >>

\* Mutant: the last result's source node instead of the first's.
CenterNodeUuid_Last(rs) == rs[Len(rs)].source_node_uuid

\* center_node_uuid = results[0].source_node_uuid
CenterNodeUuid(rs) == rs[1].source_node_uuid

\* The reranked search with the center node.
BeginnerCenterSearch ==
    /\ script = "beginner"
    /\ pc = "b_center"
    /\ calls' = Append(calls, Call("search", CenterNodeUuid(results)))
    /\ \E ok \in BOOLEAN :
        IF ok
        THEN /\ out' = Append(out, "Reranked Search Results")
             /\ Goto("b_node_search")
        ELSE /\ BeginnerRaise("Exception")
             /\ UNCHANGED out
    /\ UNCHANGED << script, advVars, graphiti, begVars >>

\* node_search_config.limit = 5; await graphiti._search(...); the printing
\* of node_search_results.nodes.  The try block ends here.
BeginnerNodeSearch ==
    /\ script = "beginner"
    /\ pc = "b_node_search"
    /\ calls' = Append(calls, Call("_search", NodeSearchLimit))
    /\ \E r \in SearchOutcomes("California Governor") :
        IF r.kind = "ok"
        THEN /\ out' = Append(out, "Node Search Results")
             /\ Goto("b_finally")
        ELSE /\ BeginnerRaise(IF r.kind = "none" THEN "AttributeError"
                              ELSE "Exception")
             /\ UNCHANGED out
    /\ UNCHANGED << script, advVars, graphiti, begVars >>

\* finally: await graphiti.close(); print('Connection closed').  An exception
\* in flight goes on after the block.
BeginnerFinally ==
    /\ script = "beginner"
    /\ pc = "b_finally"
    /\ calls' = Append(calls, Call("close", None))
    /\ \E ok \in BOOLEAN :
        IF ok
        THEN /\ out' = Append(out, "Connection closed")
             /\ IF exc = None THEN ReturnMain ELSE EscapeMain(exc)
        ELSE /\ EscapeMain("Exception")
             /\ UNCHANGED out
    /\ UNCHANGED << script, advVars, graphiti, begVars >>

Next ==
    \/ MainAskSetup
    \/ SetupClear
    \/ SetupIndices
    \/ SetupFile
    \/ SetupIngest
    \/ SetupUser
    \/ SetupSearchUser
    \/ SetupSearchBrand
    \/ MainAfterSetup
    \/ LookupUser
    \/ LookupBrand
    \/ MainReady
    \/ MainInput
    \/ ChatbotSearch
    \/ ChatbotRespond
    \/ AgentRoute
    \/ ToolsNode
    \/ TurnEnd
    \/ MainExcept
    \/ MainClose
    \/ BackgroundTask
    \/ LoopShutdown
    \/ BeginnerCreate
    \/ BeginnerAddEpisode
    \/ BeginnerSearch
    \/ BeginnerCenterSearch
    \/ BeginnerNodeSearch
    \/ BeginnerFinally

Spec == Init /\ [][Next]_vars

\* ------------------------------------------------------------------ claims

Ended == pc \in {"done", "exited"}

CloseCount == Cardinality({ i \in DOMAIN calls : calls[i].op = "close" })

\* The chat loop is running: from the first 'You: ' prompt to the break.
LoopPcs == {"input", "agent", "agent_llm", "route", "tools", "turn_end", "turn_exc"}

ErrorLogged == \E i \in DOMAIN out : out[i] \in
    { "error: Product data not found",
      "error: Could not find existing user/brand nodes" }

LoopStarted == inputs_read > 0 \/ \E i \in DOMAIN out : out[i] = "ShoeBot is ready"

\* A node lookup whose search returned no nodes.
LookupUnresolved == node_list.kind = "ok" /\ node_list.nodes = <<>>

\* C1: every run of the advanced script's main() that has ended has called
\* client.close(), whichever way it ended (exit, early return, exception).
C1_MainAlwaysCloses ==
    (script = "advanced" /\ Ended) => CloseCount >= 1

\* C2: in the beginner script, close() is called at most once, nothing is
\* called on the connection after it, and once the Graphiti instance
\* exists, a main() that has ended has called close() exactly once.
C2_BeginnerClosesOnce ==
    script = "beginner" =>
        /\ CloseCount <= 1
        /\ \A i \in DOMAIN calls : calls[i].op = "close" => i = Len(calls)
        /\ (Ended /\ graphiti # None) => CloseCount = 1

\* A beginner run in which the third add_episode raised, and which closed.
C2_Witness ==
    /\ script = "beginner"
    /\ pc = "done"
    /\ outcome = "raised"
    /\ ep_index = 2
    /\ Len(calls) = 4
    /\ CloseCount = 1

\* C3: a missing product data file, and a node lookup that finds no node,
\* each end the advanced script's main() by a logged error and a return,
\* with no exception leaving main() and the chat loop never started.
C3_FailuresLogAndReturn ==
    (script = "advanced" /\ Ended /\ (json_file = "missing" \/ LookupUnresolved))
        => (outcome = "returned" /\ ErrorLogged /\ ~LoopStarted)

\* C4: while the chat loop runs, both node uuids of the conversation state
\* are resolved (not None).
C4_LoopHasResolvedIds ==
    (script = "advanced" /\ pc \in LoopPcs) =>
        /\ user_state.user_node_uuid # None
        /\ user_state.manybirds_node_uuid # None

\* The agent node about to run in a chat loop entered through the setup path.
C4_Witness ==
    /\ script = "advanced"
    /\ pc = "agent"
    /\ Lower(run_setup) = Yes
    /\ json_file = "read"
    /\ user_state.user_node_uuid = "uuid-jess"

\* C5: an exception raised while the agent graph runs goes to the handler
\* of the chat loop, which prints it and returns to the 'You: ' prompt with
\* main() still running.
C5_TurnExceptionCaught ==
    [][ script = "advanced" =>
          /\ (pc \in {"agent", "agent_llm", "tools"} /\ exc' # None)
                => (pc' = "turn_exc" /\ outcome' = "running")
          /\ pc = "turn_exc"
                => /\ pc' = "input"
                   /\ outcome' = "running"
                   /\ exc' = None
                   /\ out' = Append(out, "An error occurred")
      ]_vars

\* A second turn ran to its end after a turn that raised; then 'exit' was
\* read and the connection closed.
C5_Witness ==
    /\ script = "advanced"
    /\ pc = "done"
    /\ outcome = "returned"
    /\ graph_runs = 2
    /\ \E i \in DOMAIN out :
        /\ out[i] = "An error occurred"
        /\ \E j \in DOMAIN out : j > i /\ out[j] = "newline"
    /\ CloseCount = 1

\* C6: chatbot returns with the task it created still pending, and a
\* background task that ends (either way) changes nothing that main(), the
\* graph nodes or the routing read.
C6_BackgroundOutcomeUnobserved ==
    [][ script = "advanced" =>
          /\ (pc = "agent_llm" /\ pc' = "route")
                => /\ tasks' = tasks + 1
                   /\ bg_failed' = bg_failed
                   /\ Len(messages') = Len(messages) + 1
                   /\ Last(messages').role = "ai"
          /\ (pc # "done" /\ (tasks' < tasks \/ bg_failed' # bg_failed))
                => UNCHANGED << ctlVars, loopVars, graphVars, calls, out >>
      ]_vars

\* A turn that reached END while one of its tasks had failed and another
\* was still pending.
C6_Witness ==
    /\ script = "advanced"
    /\ pc = "turn_end"
    /\ bg_failed
    /\ tasks > 0

\* C7: a line read at 'You: ' ends the loop iff its lower-cased text is
\* 'exit'; then no graph execution starts and the next step of main() is
\* close(); any other line starts exactly one graph execution, after which
\* (END or exception) main() is back at the prompt.
C7_ExitEndsLoop ==
    [][ script = "advanced" =>
          /\ (pc = "input" /\ inputs_read' # inputs_read)
                => IF Lower(user_input') = Exit
                   THEN pc' = "close" /\ graph_runs' = graph_runs
                   ELSE pc' = "agent" /\ graph_runs' = graph_runs + 1
          /\ (pc' = "close" /\ pc # "close")
                => (pc = "input" /\ Lower(user_input') = Exit)
          /\ graph_runs' # graph_runs => pc = "input"
          /\ (pc = "close" /\ pc' # pc) => Last(calls').op = "close"
          /\ (pc \in {"turn_end", "turn_exc"} /\ pc' # pc) => pc' = "input"
      ]_vars

\* 'ExIT' read after a turn whose input was the empty string.
C7_Witness ==
    /\ script = "advanced"
    /\ pc = "close"
    /\ user_input = << "E", "x", "I", "T" >>
    /\ graph_runs = 1
    /\ messages[1].content = <<>>

\* C8: a graph execution starts at the agent node; after an agent execution
\* the tools node runs iff the last message carries tool calls, else the
\* turn ends; the tools node is followed by the agent node; the turn ends
\* only directly after such an agent execution.
C8_GraphRouting ==
    [][ script = "advanced" =>
          /\ graph_runs' # graph_runs => pc' = "agent"
          /\ (pc = "agent_llm" /\ pc' # pc) => pc' \in {"route", "turn_exc"}
          /\ (pc = "route" /\ pc' # pc)
                => pc' = IF Last(messages).tool_calls # <<>>
                         THEN "tools" ELSE "turn_end"
          /\ (pc = "tools" /\ pc' # pc) => pc' \in {"agent", "turn_exc"}
          /\ (pc' = "tools" /\ pc' # pc) => pc = "route"
          /\ (pc' = "turn_end" /\ pc' # pc)
                => /\ pc = "route"
                   /\ Last(messages).role = "ai"
                   /\ Last(messages).tool_calls = <<>>
      ]_vars

\* A turn that ended after one tool round: agent, tools, agent, END.
C8_Witness ==
    /\ script = "advanced"
    /\ pc = "turn_end"
    /\ Len(messages) = 4
    /\ messages[2].tool_calls # <<>>
    /\ messages[3].role = "tool"
    /\ messages[4].role = "ai"

SetupOps == {"clear_data", "build_indices_and_constraints", "add_episode"}

\* C9: clear_data, the schema build and the setup ingestion are called only
\* when the lower-cased answer is 'yes'; for any other answer the calls
\* made before the first line is read are at most the two node lookups.
C9_SetupOnlyOnYes ==
    script = "advanced" =>
        /\ (\E i \in DOMAIN calls : calls[i].op \in SetupOps)
              => (run_setup # None /\ Lower(run_setup) = Yes)
        /\ (run_setup # None /\ Lower(run_setup) # Yes /\ inputs_read = 0)
              => /\ Len(calls) <= 2
                 /\ \A i \in DOMAIN calls : calls[i].op = "_search"

\* The first prompt of the chat loop after the answer 'no'.
C9_Witness ==
    /\ script = "advanced"
    /\ pc = "input"
    /\ inputs_read = 0
    /\ run_setup = << "n", "o" >>
    /\ Len(calls) = 2

\* C10: when a turn has ended, exactly one add_episode task was created in
\* it, and its body pairs the user's line with the final response.
C10_OneTaskPerTurn ==
    (script = "advanced" /\ pc = "turn_end") =>
        /\ Len(scheduled) = 1
        /\ scheduled[1].body
              = << "jess", user_input, "SalesBot", Last(messages).content >>

\* The positions of the beginner script's calls with operation `op`.
CallsOf(op) == { i \in DOMAIN calls : calls[i].op = op }

\* C11: in the beginner script the four episodes are added in index order
\* before any search; the search after the initial one is the center-node
\* search, made iff the initial search returned a result, with the source
\* node of the first result; the node search, with limit 5, comes after
\* these in both cases.
C11_BeginnerCallOrder ==
    script = "beginner" =>
        /\ \A i \in CallsOf("add_episode") :
              i <= NumEpisodes /\ calls[i].arg = i - 1
        /\ \A i \in CallsOf("search") \cup CallsOf("_search") :
              /\ i > NumEpisodes
              /\ \A j \in 1..NumEpisodes : calls[j].op = "add_episode"
        /\ \A i \in CallsOf("search") :
              \/ i = NumEpisodes + 1 /\ calls[i].arg = None
              \/ /\ i = NumEpisodes + 2
                 /\ Len(results) >= 1
                 /\ calls[i].arg = results[1].source_node_uuid
        /\ (pc = "b_node_search" \/ CallsOf("_search") # {})
              => /\ calls[NumEpisodes + 1].op = "search"
                 /\ (NumEpisodes + 2 \in CallsOf("search")) <=> (Len(results) >= 1)
        /\ \A i \in CallsOf("_search") :
              /\ calls[i].arg = NodeSearchLimit
              /\ i = NumEpisodes + (IF Len(results) >= 1 THEN 3 ELSE 2)

\* A beginner run that returned after the center-node search and the node
\* search: four episodes, three searches, close.
C11_Witness ==
    /\ script = "beginner"
    /\ pc = "done"
    /\ outcome = "returned"
    /\ Len(calls) = NumEpisodes + 4
    /\ calls[NumEpisodes + 2] = Call("search", "n2")
    /\ calls[NumEpisodes + 3].op = "_search"

\* C12: when client.close() has been called at the end of the advanced
\* script's main(), no add_episode task scheduled by chatbot is still
\* pending: every scheduled task finished before the close.
C12_NoTaskPendingAtClose ==
    (script = "advanced" /\ pc = "done" /\ CloseCount >= 1) => tasks = 0

\* One '- ' bullet per edge fact, in result order.
FactBullets(edges) ==
    [ i \in 1..(2 * Len(edges)) |->
        IF i % 2 = 0 THEN edges[i \div 2].fact
        ELSE IF i = 1 THEN "- " ELSE "\\n- " ]

\* No fact was retrieved for the turn: no search, or an empty list of edges.
NoFactRetrieved == edge_results = None \/ edge_results = <<>>

\* C13: the system prompt built by chatbot holds the fallback text exactly
\* when no fact was retrieved for the turn (empty history or an empty list
\* of edges); otherwise it holds one '- ' bullet per retrieved edge fact, in
\* result order.
C13_FallbackIffNoFacts ==
    (script = "advanced" /\ system_prompt # None) =>
        /\ (system_prompt = NoFacts) <=> NoFactRetrieved
        /\ ~NoFactRetrieved => system_prompt = FactBullets(edge_results)
====
